---- MODULE Spec2Model ----
(***************************************************************************)
(* Model of DynamicProperty (src/src/DynamicProperty.ts): a chunked        *)
(* key-value codec layered on a host store of dynamic properties.          *)
(*                                                                         *)
(* A JavaScript string is a sequence of characters; a character is a       *)
(* one-element atom written as a TLA+ string ("a", "_", "%", ...).  The    *)
(* atom "U+E9" stands for the single non-ASCII character U+00E9, whose     *)
(* UTF-8 encoding is the two bytes C3 A9.                                  *)
(*                                                                         *)
(* A JavaScript value is a record [kind, str, num, bool]; kind is the      *)
(* result of typeof, except "null" for null and "throw" for an exception   *)
(* raised instead of a value returned.                                     *)
(***************************************************************************)
EXTENDS Integers, Sequences, FiniteSets, TLC

\* ------------------------------------------------------------------------
\* Program constants
\* ------------------------------------------------------------------------

\* static readonly MAX_CHUNK_SIZE = 32767, scaled down so that the strings
\* of the model span several chunks.
MAX_CHUNK_SIZE == 4

\* static readonly CHUNK_ID_PREFIX = "_"
CHUNK_ID_PREFIX == "_"

\* ------------------------------------------------------------------------
\* JavaScript values
\* ------------------------------------------------------------------------

JsValue(kind, str, num, bool) == [kind |-> kind, str |-> str, num |-> num, bool |-> bool]

undefined == JsValue("undefined", <<>>, <<>>, FALSE)
null == JsValue("null", <<>>, <<>>, FALSE)
Num(n) == JsValue("number", <<>>, <<n>>, FALSE)
Bool(b) == JsValue("boolean", <<>>, <<>>, b)
Str(s) == JsValue("string", s, <<>>, FALSE)
\* A Vector3 {x, y, z}, another object, a function, a thrown exception.
Vec(x, y, z) == JsValue("object", <<"Vector3">>, <<x, y, z>>, FALSE)
Obj(tag) == JsValue("object", <<tag>>, <<>>, FALSE)
Fun(tag) == JsValue("function", <<tag>>, <<>>, FALSE)
Throw(e) == JsValue("throw", <<e>>, <<>>, FALSE)
NaN == JsValue("number", <<"NaN">>, <<>>, FALSE)

typeof(x) == IF x.kind = "null" THEN "object" ELSE x.kind

\* ------------------------------------------------------------------------
\* Strings as sequences of characters
\* ------------------------------------------------------------------------

Digits == <<"0", "1", "2", "3", "4", "5", "6", "7", "8", "9">>
DigitSet == {Digits[i] : i \in 1..10}
DigitVal(c) == CHOOSE d \in 0..9 : Digits[d + 1] = c

\* String(n) for a non-negative integer n: decimal, no padding.
RECURSIVE ToDecimal(_)
ToDecimal(n) ==
  IF n < 10 THEN <<Digits[n + 1]>>
  ELSE ToDecimal(n \div 10) \o <<Digits[(n % 10) + 1]>>

\* str.slice(from) and str.slice(from, to) with 0-based offsets.
Slice(str, from, to) == SubSeq(str, from + 1, to)
SliceFrom(str, from) == SubSeq(str, from + 1, Len(str))

\* str.lastIndexOf(c): 0-based offset of the last occurrence, -1 if none.
lastIndexOf(str, c) ==
  LET hits == {i \in 1..Len(str) : str[i] = c}
  IN IF hits = {} THEN -1
     ELSE (CHOOSE i \in hits : \A j \in hits : j <= i) - 1

\* str.startsWith(prefix)
startsWith(str, prefix) ==
  /\ Len(prefix) <= Len(str)
  /\ SubSeq(str, 1, Len(prefix)) = prefix

\* parseInt(str) for the strings that reach it: the longest prefix of
\* decimal digits, NaN (modelled as -1) when that prefix is empty.
RECURSIVE ParseDigits(_, _)
ParseDigits(str, acc) ==
  IF str = <<>> \/ Head(str) \notin DigitSet THEN acc
  ELSE ParseDigits(Tail(str), 10 * acc + DigitVal(Head(str)))

parseInt(str) ==
  IF str = <<>> \/ Head(str) \notin DigitSet THEN -1
  ELSE ParseDigits(str, 0)

\* ------------------------------------------------------------------------
\* encodeURI / decodeURI (ECMA-262 19.2.6), on the characters of the model
\* ------------------------------------------------------------------------

HexSet == DigitSet \cup {"A", "B", "C", "D", "E", "F"}

\* The UTF-8 bytes, as pairs of hex digits, of the characters encodeURI
\* escapes.  Every other character of the model is in encodeURI's unescaped
\* set (alphanumerics, the marks - _ . ! ~ * ' ( ) and the reserved
\* characters ; / ? : @ & = + $ , #).
EscapedChars == {"\"", "%", " ", "\\", "U+E9"}

Utf8Bytes(c) ==
  CASE c = "\"" -> << <<"2", "2">> >>
    [] c = "%" -> << <<"2", "5">> >>
    [] c = " " -> << <<"2", "0">> >>
    [] c = "\\" -> << <<"5", "C">> >>
    [] c = "U+E9" -> << <<"C", "3">>, <<"A", "9">> >>

RECURSIVE EscapeBytes(_)
EscapeBytes(bytes) ==
  IF bytes = <<>> THEN <<>>
  ELSE <<"%">> \o Head(bytes) \o EscapeBytes(Tail(bytes))

RECURSIVE encodeURI(_)
encodeURI(str) ==
  IF str = <<>> THEN <<>>
  ELSE (IF Head(str) \in EscapedChars
        THEN EscapeBytes(Utf8Bytes(Head(str)))
        ELSE <<Head(str)>>) \o encodeURI(Tail(str))

\* The bytes < 0x80 that decodeURI leaves escaped: they decode to a
\* character of the reserved set or "#".
ReservedBytes ==
  { <<"2", "3">>, <<"2", "4">>, <<"2", "6">>, <<"2", "B">>, <<"2", "C">>,
    <<"2", "F">>, <<"3", "A">>, <<"3", "B">>, <<"3", "D">>, <<"3", "F">>,
    <<"4", "0">> }

\* The character of one byte < 0x80; "U+other" is any character outside the
\* model's alphabet.
AsciiChar(b) ==
  CASE b = <<"2", "2">> -> "\""
    [] b = <<"2", "5">> -> "%"
    [] b = <<"2", "0">> -> " "
    [] b = <<"5", "C">> -> "\\"
    [] OTHER -> "U+other"

\* The character of a two-byte UTF-8 sequence.
TwoByteChar(b1, b2) ==
  IF b1 = <<"C", "3">> /\ b2 = <<"A", "9">> THEN "U+E9" ELSE "U+other"

\* Is str[k..k+2] an escape "%XX" with two hex digits?
IsEscapeAt(str, k) ==
  /\ k + 2 <= Len(str)
  /\ str[k] = "%"
  /\ str[k + 1] \in HexSet
  /\ str[k + 2] \in HexSet

ByteAt(str, k) == <<str[k + 1], str[k + 2]>>

\* Number of bytes a UTF-8 sequence starting with lead byte b has; 0 when b
\* cannot start a sequence (a continuation byte 10xxxxxx, or 11111xxx).
SequenceLength(b) ==
  CASE b[1] \in {"0", "1", "2", "3", "4", "5", "6", "7"} -> 1
    [] b[1] \in {"C", "D"} -> 2
    [] b[1] = "E" -> 3
    [] b[1] = "F" /\ b[2] \in {"0", "1", "2", "3", "4", "5", "6", "7"} -> 4
    [] OTHER -> 0

IsContinuation(b) == b[1] \in {"8", "9", "A", "B"}

\* decodeURI from position k on; <<"URIError">> marks a malformed escape.
\* The result is a pair <<ok, text>>.
RECURSIVE DecodeFrom(_, _, _)
DecodeFrom(str, k, acc) ==
  IF k > Len(str) THEN <<TRUE, acc>>
  ELSE IF str[k] # "%" THEN DecodeFrom(str, k + 1, Append(acc, str[k]))
  ELSE IF ~IsEscapeAt(str, k) THEN <<FALSE, acc>>
  ELSE
    LET b == ByteAt(str, k)
        n == SequenceLength(b)
    IN IF n = 0 THEN <<FALSE, acc>>
       ELSE IF n = 1 THEN
         IF b \in ReservedBytes
         THEN DecodeFrom(str, k + 3, acc \o SubSeq(str, k, k + 2))
         ELSE DecodeFrom(str, k + 3, Append(acc, AsciiChar(b)))
       ELSE IF \E j \in 1..(n - 1) :
                 ~(IsEscapeAt(str, k + 3 * j) /\ IsContinuation(ByteAt(str, k + 3 * j)))
         THEN <<FALSE, acc>>
       ELSE IF n = 2
         THEN DecodeFrom(str, k + 6, Append(acc, TwoByteChar(b, ByteAt(str, k + 3))))
         ELSE DecodeFrom(str, k + 3 * n, Append(acc, "U+other"))

decodeURI(str) ==
  LET r == DecodeFrom(str, 1, <<>>)
  IN IF r[1] THEN Str(r[2]) ELSE Throw("URIError")

\* ------------------------------------------------------------------------
\* JSON.stringify / JSON.parse, on the values of the model
\* ------------------------------------------------------------------------

RECURSIVE JsonQuoteChars(_)
JsonQuoteChars(str) ==
  IF str = <<>> THEN <<>>
  ELSE (IF Head(str) \in {"\"", "\\"}
        THEN <<"\\", Head(str)>>
        ELSE <<Head(str)>>) \o JsonQuoteChars(Tail(str))

\* JSON.stringify(value): a string value, or undefined for a value JSON
\* cannot represent (undefined, a function).
JSON_stringify(value) ==
  CASE value.kind = "string" -> Str(<<"\"">> \o JsonQuoteChars(value.str) \o <<"\"">>)
    [] value.kind = "number" ->
         Str(IF value = NaN THEN <<"n", "u", "l", "l">> ELSE ToDecimal(value.num[1]))
    [] value.kind = "boolean" ->
         Str(IF value.bool THEN <<"t", "r", "u", "e">> ELSE <<"f", "a", "l", "s", "e">>)
    [] value.kind = "null" -> Str(<<"n", "u", "l", "l">>)
    [] OTHER -> undefined

\* The characters between the quotes of a JSON string literal, unescaped;
\* <<FALSE, _>> when the text is not the inside of one literal.
RECURSIVE JsonUnquoteChars(_, _)
JsonUnquoteChars(str, acc) ==
  IF str = <<>> THEN <<TRUE, acc>>
  ELSE IF Head(str) = "\"" THEN <<FALSE, acc>>
  ELSE IF Head(str) = "\\" THEN
    IF Len(str) >= 2 /\ str[2] \in {"\"", "\\"}
    THEN JsonUnquoteChars(Tail(Tail(str)), Append(acc, str[2]))
    ELSE <<FALSE, acc>>
  ELSE JsonUnquoteChars(Tail(str), Append(acc, Head(str)))

IsJsonNumber(text) ==
  /\ text # <<>>
  /\ \A i \in 1..Len(text) : text[i] \in DigitSet
  /\ (Len(text) > 1 => text[1] # "0")

\* JSON.parse(text): the value, or a thrown SyntaxError.
JSON_parse(text) ==
  IF text = <<"t", "r", "u", "e">> THEN Bool(TRUE)
  ELSE IF text = <<"f", "a", "l", "s", "e">> THEN Bool(FALSE)
  ELSE IF text = <<"n", "u", "l", "l">> THEN null
  ELSE IF IsJsonNumber(text) THEN Num(parseInt(text))
  ELSE IF Len(text) >= 2 /\ text[1] = "\"" /\ text[Len(text)] = "\"" THEN
    LET r == JsonUnquoteChars(SubSeq(text, 2, Len(text) - 1), <<>>)
    IN IF r[1] THEN Str(r[2]) ELSE Throw("SyntaxError")
  ELSE Throw("SyntaxError")

\* String(value), as the += of get's chunk loop converts a chunk.
JsToString(value) ==
  CASE value.kind = "string" -> value.str
    [] value.kind = "number" ->
         IF value = NaN THEN <<"N", "a", "N">> ELSE ToDecimal(value.num[1])
    [] value.kind = "boolean" ->
         IF value.bool THEN <<"t", "r", "u", "e">> ELSE <<"f", "a", "l", "s", "e">>
    [] value.kind = "undefined" -> <<"u", "n", "d", "e", "f", "i", "n", "e", "d">>
    [] OTHER -> <<"[", "o", "b", "j", "e", "c", "t", " ", "O", "b", "j", "e", "c", "t", "]">>

\* ------------------------------------------------------------------------
\* regex.ts
\* ------------------------------------------------------------------------

\* The characters escapeRegExp puts a backslash before.
RegExpSpecials == {".", "*", "+", "?", "^", "$", "{", "}", "(", ")", "|", "[", "]", "\\"}

\* Mutant: the input is put into the pattern as it is.
escapeRegExp_Unescaped(input) == input

\* escapeRegExp(input): input.replace(/[.*+?^${}()|[\]\\]/g, "\\$&").
RECURSIVE escapeRegExp(_)
escapeRegExp(input) ==
  IF input = <<>> THEN <<>>
  ELSE (IF Head(input) \in RegExpSpecials
        THEN <<"\\", Head(input)>>
        ELSE <<Head(input)>>) \o escapeRegExp(Tail(input))

\* regex`...`: the template's literal parts joined with the escaped values.
\* strings and values are the sequences the tag function receives.
RECURSIVE regexSource(_, _)
regexSource(strings, values) ==
  IF strings = <<>> THEN <<>>
  ELSE Head(strings)
       \o (IF values # <<>> THEN escapeRegExp(Head(values)) ELSE <<>>)
       \o regexSource(Tail(strings), IF values # <<>> THEN Tail(values) ELSE <<>>)

\* new RegExp(source), for the constructs these sources use.  A compiled
\* pattern is a sequence of items: "lit" matches the character ch, "any"
\* (an unescaped ".") any one character, "digits" (\d+) one or more decimal
\* digits, "bol" (^) and "eol" ($) the two ends of the input.
Item(type, ch) == [type |-> type, ch |-> ch]

RECURSIVE RegExpCompile(_)
RegExpCompile(source) ==
  IF source = <<>> THEN <<>>
  ELSE IF Head(source) = "\\" /\ Len(source) >= 3 /\ source[2] = "d" /\ source[3] = "+"
    THEN <<Item("digits", "d")>> \o RegExpCompile(SubSeq(source, 4, Len(source)))
  ELSE IF Head(source) = "\\" /\ Len(source) >= 2
    THEN <<Item("lit", source[2])>> \o RegExpCompile(SubSeq(source, 3, Len(source)))
  ELSE IF Head(source) = "." THEN <<Item("any", ".")>> \o RegExpCompile(Tail(source))
  ELSE IF Head(source) = "^" THEN <<Item("bol", "^")>> \o RegExpCompile(Tail(source))
  ELSE IF Head(source) = "$" THEN <<Item("eol", "$")>> \o RegExpCompile(Tail(source))
  ELSE <<Item("lit", Head(source))>> \o RegExpCompile(Tail(source))

\* Does pattern match str with the match's next character at position k?
RECURSIVE MatchFrom(_, _, _)
MatchFrom(pattern, str, k) ==
  IF pattern = <<>> THEN TRUE
  ELSE LET item == Head(pattern) IN
    CASE item.type = "lit" ->
           k <= Len(str) /\ str[k] = item.ch /\ MatchFrom(Tail(pattern), str, k + 1)
      [] item.type = "any" ->
           k <= Len(str) /\ MatchFrom(Tail(pattern), str, k + 1)
      [] item.type = "digits" ->
           \E j \in k..Len(str) :
             /\ \A i \in k..j : str[i] \in DigitSet
             /\ MatchFrom(Tail(pattern), str, j + 1)
      [] item.type = "bol" -> k = 1 /\ MatchFrom(Tail(pattern), str, k)
      [] item.type = "eol" -> k = Len(str) + 1 /\ MatchFrom(Tail(pattern), str, k)

\* pattern.test(str): a match starting at any position (a pattern that
\* begins with ^ can only match from the first).
RegExpTest(pattern, str) ==
  \E k \in (IF pattern # <<>> /\ Head(pattern).type = "bol"
            THEN {1} ELSE 1..(Len(str) + 1)) :
    MatchFrom(pattern, str, k)

\* ------------------------------------------------------------------------
\* SerializedValue.ts
\* ------------------------------------------------------------------------

\* isSerializedValue(x) reads x.x when typeof x is "object": on null that
\* read raises a TypeError.
isSerializedValueThrows(x) == x.kind = "null"

\* Mutant: any object passes, whatever its x, y and z.
isSerializedValue_AnyObject(x) ==
  \/ typeof(x) \in {"boolean", "number", "string", "undefined"}
  \/ typeof(x) = "object"

isSerializedValue(x) ==
  \/ typeof(x) \in {"boolean", "number", "string", "undefined"}
  \/ (typeof(x) = "object" /\ x.str = <<"Vector3">>)

\* ------------------------------------------------------------------------
\* The host store (SupportsDynamicProperties)
\* ------------------------------------------------------------------------
\* owner.props maps each key present to its value; owner.ids is the order in
\* which getDynamicPropertyIds() lists the keys.  The host keeps its keys in
\* key order and lists them ascending, or descending when owner.descending.

\* The order of characters (by code unit) among those keys are made of.
CharOrder == <<".", "0", "1", "2", "3", "4", "5", "6", "7", "8", "9", ":", "_",
               "a", "b", "n", "s">>
CharCode == [c \in {CharOrder[i] : i \in 1..Len(CharOrder)} |->
               CHOOSE i \in 1..Len(CharOrder) : CharOrder[i] = c]

RECURSIVE KeyLess(_, _)
KeyLess(a, b) ==
  IF b = <<>> THEN FALSE
  ELSE IF a = <<>> THEN TRUE
  ELSE IF Head(a) = Head(b) THEN KeyLess(Tail(a), Tail(b))
  ELSE CharCode[Head(a)] < CharCode[Head(b)]

\* ids with key put at its place in the listing order.
RECURSIVE InsertKey(_, _, _)
InsertKey(keys, key, descending) ==
  IF keys = <<>> THEN <<key>>
  ELSE IF (IF descending THEN KeyLess(Head(keys), key) ELSE KeyLess(key, Head(keys)))
    THEN <<key>> \o keys
  ELSE <<Head(keys)>> \o InsertKey(Tail(keys), key, descending)

RECURSIVE SeqRemove(_, _)
SeqRemove(seq, x) ==
  IF seq = <<>> THEN <<>>
  ELSE IF Head(seq) = x THEN Tail(seq)
  ELSE <<Head(seq)>> \o SeqRemove(Tail(seq), x)

Reverse(seq) == [i \in 1..Len(seq) |-> seq[Len(seq) + 1 - i]]

getDynamicProperty(owner, identifier) ==
  IF identifier \in DOMAIN owner.props THEN owner.props[identifier] ELSE undefined

getDynamicPropertyIds(owner) == owner.ids

\* setDynamicProperty(identifier, value): undefined removes the key.
setDynamicProperty(owner, identifier, value) ==
  IF value = undefined
  THEN [owner EXCEPT
          !.props = [k \in DOMAIN owner.props \ {identifier} |-> owner.props[k]],
          !.ids = SeqRemove(owner.ids, identifier)]
  ELSE [owner EXCEPT
          !.props = [k \in DOMAIN owner.props \cup {identifier} |->
                       IF k = identifier THEN value ELSE owner.props[k]],
          !.ids = IF identifier \in DOMAIN owner.props THEN owner.ids
                  ELSE InsertKey(owner.ids, identifier, owner.descending)]

EmptyOwner == [props |-> [k \in {} |-> undefined], ids |-> <<>>, descending |-> FALSE]

\* ------------------------------------------------------------------------
\* DynamicProperty: private helpers
\* ------------------------------------------------------------------------
\* self is the class with its static fields: [namespace, serialize,
\* deserialize].  An options object is [namespace, serialize, deserialize];
\* namespace is undefined or a string, serialize and deserialize are "none"
\* (not given) or the name of a caller-supplied function.

\* a ?? b
Coalesce(a, b) == IF a = undefined THEN b ELSE a

\* Mutant: the namespace of the call's options is not looked at.
_getNamespacedId_IgnoresOption(self, id, namespace) ==
  IF self.namespace = undefined THEN id ELSE self.namespace.str \o <<":">> \o id

\* _getNamespacedId(id, namespace = this.namespace)
_getNamespacedId(self, id, namespace) ==
  LET ns == Coalesce(namespace, self.namespace)
  IN IF ns = undefined THEN id ELSE ns.str \o <<":">> \o id

\* Mutant: the chunks are numbered from 1.
_getChunkPropertyId_OneBased(propertyId, chunkId) ==
  propertyId \o <<CHUNK_ID_PREFIX>> \o ToDecimal(chunkId + 1)

\* _getChunkPropertyId(propertyId, chunkId)
_getChunkPropertyId(propertyId, chunkId) ==
  propertyId \o <<CHUNK_ID_PREFIX>> \o ToDecimal(chunkId)

\* _getChunkId(chunkPropertyId): -1 stands for undefined and for NaN.
_getChunkId(chunkPropertyId) ==
  LET chunkIdPrefixIdx == lastIndexOf(chunkPropertyId, CHUNK_ID_PREFIX)
  IN IF chunkIdPrefixIdx = -1 THEN -1
     ELSE parseInt(SliceFrom(chunkPropertyId, chunkIdPrefixIdx + 1))

\* propIds.filter((propId) => pattern.test(propId))
RECURSIVE FilterTest(_, _)
FilterTest(propIds, pattern) ==
  IF propIds = <<>> THEN <<>>
  ELSE (IF RegExpTest(pattern, Head(propIds)) THEN <<Head(propIds)>> ELSE <<>>)
       \o FilterTest(Tail(propIds), pattern)

\* Mutant: the keys compared as strings, as sort() does by default.
ChunkIdLess_Lexicographic(a, b) == KeyLess(a, b)

\* The comparator of _getChunkPropertyIds' sort: a sorts before b.
ChunkIdLess(a, b) == _getChunkId(a) < _getChunkId(b)

\* Array.prototype.sort with that comparator: a stable insertion sort.
RECURSIVE InsertSorted(_, _)
InsertSorted(sorted, x) ==
  IF sorted = <<>> THEN <<x>>
  ELSE IF ChunkIdLess(x, Head(sorted)) THEN <<x>> \o sorted
  ELSE <<Head(sorted)>> \o InsertSorted(Tail(sorted), x)

RECURSIVE SortByChunkId(_)
SortByChunkId(seq) ==
  IF seq = <<>> THEN <<>>
  ELSE InsertSorted(SortByChunkId(SubSeq(seq, 1, Len(seq) - 1)), seq[Len(seq)])

\* _getChunkPropertyIds(owner, id)
_getChunkPropertyIds(owner, id) ==
  LET isPropertyChunk ==
        RegExpCompile(regexSource(<< <<"^">>, <<>>, <<"\\", "d", "+", "$">> >>,
                                  << id, <<CHUNK_ID_PREFIX>> >>))
  IN SortByChunkId(FilterTest(getDynamicPropertyIds(owner), isPropertyChunk))

\* _setChunk(owner, id, chunkId, chunk)
_setChunk(owner, id, chunkId, chunk) ==
  setDynamicProperty(owner, _getChunkPropertyId(id, chunkId), chunk)

\* Mutant: a window that would end inside an escape triplet ends before it.
ChunkEnd_KeepsTripletsWhole(encoded, chunkStart) ==
  LET end == IF chunkStart + MAX_CHUNK_SIZE < Len(encoded)
             THEN chunkStart + MAX_CHUNK_SIZE ELSE Len(encoded)
  IN IF end < Len(encoded) /\ encoded[end] = "%" THEN end - 1
     ELSE IF end < Len(encoded) /\ end >= 2 /\ encoded[end - 1] = "%" THEN end - 2
     ELSE end

\* Mutant: the window is one unit short of MAX_CHUNK_SIZE.
ChunkEnd_OneShort(encoded, chunkStart) ==
  IF chunkStart + MAX_CHUNK_SIZE - 1 < Len(encoded)
  THEN chunkStart + MAX_CHUNK_SIZE - 1 ELSE Len(encoded)

\* const chunkEnd = Math.min(chunkStart + this.MAX_CHUNK_SIZE, encoded.length)
ChunkEnd(encoded, chunkStart) ==
  IF chunkStart + MAX_CHUNK_SIZE < Len(encoded)
  THEN chunkStart + MAX_CHUNK_SIZE ELSE Len(encoded)

\* The chunks _chunkString yields from offset chunkStart of encoded on.
RECURSIVE ChunksFrom(_, _)
ChunksFrom(encoded, chunkStart) ==
  IF ~(chunkStart < Len(encoded)) THEN <<>>
  ELSE LET chunkEnd == ChunkEnd(encoded, chunkStart)
       IN <<Slice(encoded, chunkStart, chunkEnd)>> \o ChunksFrom(encoded, chunkEnd)

\* _chunkString(str), all its chunks in order.
_chunkString(str) == ChunksFrom(encodeURI(str), 0)

\* ------------------------------------------------------------------------
\* Caller-supplied functions
\* ------------------------------------------------------------------------
\* "json" names the class's initial serialize / deserialize; "raw" names the
\* caller's (value) => value, which stores host primitives as they are.

\* static serialize = (value) => JSON.stringify(value)
DefaultSerialize(value, id) == JSON_stringify(value)

\* static deserialize = (value) => typeof value === "string" ? JSON.parse(value) : value
DefaultDeserialize(value, id) ==
  IF typeof(value) = "string" THEN JSON_parse(value.str) ELSE value

ApplySerializer(name, value, id) ==
  CASE name = "json" -> DefaultSerialize(value, id)
    [] name = "raw" -> value

ApplyDeserializer(name, value, id) ==
  CASE name = "json" -> DefaultDeserialize(value, id)
    [] name = "raw" -> value

\* old + 1
PlusOne(old) ==
  CASE old.kind = "number" -> IF old = NaN THEN NaN ELSE Num(old.num[1] + 1)
    [] old.kind = "boolean" -> Num(IF old.bool THEN 2 ELSE 1)
    [] old.kind = "null" -> Num(1)
    [] old.kind = "undefined" -> NaN
    [] OTHER -> Str(JsToString(old) \o <<"1">>)

\* An updater is [name, arg]: "inc" is (old) => old + 1, "const" is
\* (old) => arg.
ApplyUpdater(updater, old) ==
  CASE updater.name = "inc" -> PlusOne(old)
    [] updater.name = "const" -> updater.arg

\* ------------------------------------------------------------------------
\* DynamicProperty: public operations
\* ------------------------------------------------------------------------
\* Each returns [owner, ret]: the host store after the call and the value
\* returned (or the exception thrown).

Result(owner, ret) == [owner |-> owner, ret |-> ret]

Options(namespace, serialize, deserialize) ==
  [namespace |-> namespace, serialize |-> serialize, deserialize |-> deserialize]

\* options?.serialize ?? this.serialize
ActiveSerializer(self, options) ==
  IF options.serialize = "none" THEN self.serialize ELSE options.serialize

\* options?.deserialize ?? this.deserialize
ActiveDeserializer(self, options) ==
  IF options.deserialize = "none" THEN self.deserialize ELSE options.deserialize

\* value += chunk over propIds
RECURSIVE CollectChunks(_, _, _)
CollectChunks(owner, propIds, value) ==
  IF propIds = <<>> THEN value
  ELSE CollectChunks(owner, Tail(propIds),
                     value \o JsToString(getDynamicProperty(owner, Head(propIds))))

\* decodeURI applied to each chunk by itself, the results joined; <<FALSE, _>>
\* when a chunk does not decode.
RECURSIVE DecodeEachChunk(_, _, _)
DecodeEachChunk(owner, propIds, acc) ==
  IF propIds = <<>> THEN <<TRUE, acc>>
  ELSE LET decoded == decodeURI(JsToString(getDynamicProperty(owner, Head(propIds))))
       IN IF decoded.kind = "throw" THEN <<FALSE, acc>>
          ELSE DecodeEachChunk(owner, Tail(propIds), acc \o decoded.str)

\* Mutant: the chunks are decoded one by one, before they are joined.
get_DecodesEachChunk(self, owner, id, options) ==
  LET fullId == _getNamespacedId(self, id, options.namespace)
      propIds == _getChunkPropertyIds(owner, fullId)
      joined == DecodeEachChunk(owner, propIds, <<>>)
      decoded == IF Len(propIds) = 1 /\ typeof(getDynamicProperty(owner, propIds[1])) # "string"
                 THEN getDynamicProperty(owner, propIds[1])
                 ELSE IF joined[1] THEN Str(joined[2]) ELSE Throw("URIError")
  IN IF Len(propIds) = 0 THEN undefined
     ELSE IF decoded.kind = "throw" THEN decoded
     ELSE ApplyDeserializer(ActiveDeserializer(self, options), decoded, fullId)

\* Mutant: a chunk run that does not start at index 0 reads as absent.
get_RequiresChunkZero(self, owner, id, options) ==
  LET fullId == _getNamespacedId(self, id, options.namespace)
      propIds == _getChunkPropertyIds(owner, fullId)
      value == IF Len(propIds) = 1
               THEN getDynamicProperty(owner, propIds[1])
               ELSE Str(CollectChunks(owner, propIds, <<>>))
      decoded == IF typeof(value) = "string" THEN decodeURI(value.str) ELSE value
  IN IF Len(propIds) = 0 \/ _getChunkId(propIds[1]) # 0 THEN undefined
     ELSE IF decoded.kind = "throw" THEN decoded
     ELSE ApplyDeserializer(ActiveDeserializer(self, options), decoded, fullId)

\* get(owner, id, options)
get(self, owner, id, options) ==
  LET fullId == _getNamespacedId(self, id, options.namespace)
      propIds == _getChunkPropertyIds(owner, fullId)
      value == IF Len(propIds) = 1
               THEN getDynamicProperty(owner, propIds[1])
               ELSE Str(CollectChunks(owner, propIds, <<>>))
      decoded == IF typeof(value) = "string" THEN decodeURI(value.str) ELSE value
  IN IF Len(propIds) = 0 THEN undefined
     ELSE IF decoded.kind = "throw" THEN decoded
     ELSE ApplyDeserializer(ActiveDeserializer(self, options), decoded, fullId)

\* exists(owner, id, options)
exists(self, owner, id, options) ==
  LET fullId == _getNamespacedId(self, id, options.namespace)
  IN Len(_getChunkPropertyIds(owner, fullId)) # 0

\* Mutant: the loop stops one key early.
RECURSIVE DeleteEach_SkipsLast(_, _)
DeleteEach_SkipsLast(owner, propIds) ==
  IF Len(propIds) <= 1 THEN owner
  ELSE DeleteEach_SkipsLast(setDynamicProperty(owner, Head(propIds), undefined),
                            Tail(propIds))

\* for (const propId of propIds) owner.setDynamicProperty(propId, undefined)
RECURSIVE DeleteEach(_, _)
DeleteEach(owner, propIds) ==
  IF propIds = <<>> THEN owner
  ELSE DeleteEach(setDynamicProperty(owner, Head(propIds), undefined), Tail(propIds))

\* Mutant: only the first chunk is deleted.
delete_FirstChunkOnly(self, owner, id, options) ==
  LET fullId == _getNamespacedId(self, id, options.namespace)
      propIds == _getChunkPropertyIds(owner, fullId)
  IN Result(IF propIds = <<>> THEN owner
            ELSE setDynamicProperty(owner, Head(propIds), undefined),
            undefined)

\* delete(owner, id, options)
delete(self, owner, id, options) ==
  LET fullId == _getNamespacedId(self, id, options.namespace)
  IN Result(DeleteEach(owner, _getChunkPropertyIds(owner, fullId)), undefined)

\* for (const chunk of chunks) { _setChunk(owner, id, chunkId, chunk); chunkId++ }
RECURSIVE WriteChunks(_, _, _, _)
WriteChunks(owner, id, chunks, chunkId) ==
  IF chunks = <<>> THEN owner
  ELSE WriteChunks(_setChunk(owner, id, chunkId, Str(Head(chunks))), id,
                   Tail(chunks), chunkId + 1)

\* Mutant: the chunks not overwritten are left in place.
DeleteFrom_KeepsTail(owner, prevChunkPropertyIds, from) == owner

\* Mutant: the loop starts at from + 1.
DeleteFrom_OffByOne(owner, prevChunkPropertyIds, from) ==
  DeleteEach(owner, SubSeq(prevChunkPropertyIds, from + 2, Len(prevChunkPropertyIds)))

\* Mutant: the loop starts at from - 1.
DeleteFrom_StartsEarly(owner, prevChunkPropertyIds, from) ==
  DeleteEach(owner, SubSeq(prevChunkPropertyIds, IF from = 0 THEN 1 ELSE from,
                           Len(prevChunkPropertyIds)))

\* for (let i = from; i < prev.length; i++) owner.setDynamicProperty(prev[i], undefined)
DeleteFrom(owner, prevChunkPropertyIds, from) ==
  DeleteEach(owner, SubSeq(prevChunkPropertyIds, from + 1, Len(prevChunkPropertyIds)))

\* set(owner, id, value, options)
set(self, owner, id, value, options) ==
  LET fullId == _getNamespacedId(self, id, options.namespace)
      serialized == ApplySerializer(ActiveSerializer(self, options), value, fullId)
      prevChunkPropertyIds == _getChunkPropertyIds(owner, fullId)
      chunks == _chunkString(serialized.str)
  IN IF value = undefined THEN delete(self, owner, id, options)
     ELSE IF isSerializedValueThrows(serialized) THEN Result(owner, Throw("TypeError"))
     ELSE IF ~isSerializedValue(serialized) THEN Result(owner, Throw("Error"))
     ELSE IF typeof(serialized) = "string"
       THEN Result(DeleteFrom(WriteChunks(owner, fullId, chunks, 0),
                              prevChunkPropertyIds, Len(chunks)),
                   undefined)
       ELSE Result(DeleteFrom(_setChunk(owner, fullId, 0, serialized),
                              prevChunkPropertyIds, 1),
                   undefined)

\* Mutant: the value is written whether the property exists or not.
setDefault_Overwrites(self, owner, id, value, options) ==
  set(self, owner, id, value, options)

\* setDefault(owner, id, value, options)
setDefault(self, owner, id, value, options) ==
  IF ~exists(self, owner, id, options)
  THEN set(self, owner, id, value, options)
  ELSE Result(owner, undefined)

\* Mutant: the value read is returned, not the adjusted one.
adjust_ReturnsOld(self, owner, id, adjuster, options) ==
  LET oldValue == get(self, owner, id, options)
      written == set(self, owner, id, ApplyUpdater(adjuster, oldValue), options)
  IN IF oldValue.kind = "throw" THEN Result(owner, oldValue)
     ELSE IF written.ret.kind = "throw" THEN written
     ELSE Result(written.owner, oldValue)

\* adjust(owner, id, adjuster, options)
adjust(self, owner, id, adjuster, options) ==
  LET oldValue == get(self, owner, id, options)
      newValue == ApplyUpdater(adjuster, oldValue)
      written == set(self, owner, id, newValue, options)
  IN IF oldValue.kind = "throw" THEN Result(owner, oldValue)
     ELSE IF written.ret.kind = "throw" THEN written
     ELSE Result(written.owner, newValue)

\* update(owner, id, updater, options) of the class before namespaces were
\* added: its get and set use id as it is.
update(self, owner, id, updater, options) ==
  adjust([self EXCEPT !.namespace = undefined], owner, id, updater,
         [options EXCEPT !.namespace = undefined])

\* Mutant: the namespace filter is left out.
RECURSIVE IdsFrom_NoNamespaceFilter(_, _, _)
IdsFrom_NoNamespaceFilter(propIds, namespace, seen) ==
  IF propIds = <<>> THEN <<>>
  ELSE LET propId == Head(propIds)
           chunkIdPrefixIdx == lastIndexOf(propId, CHUNK_ID_PREFIX)
           id == Slice(propId, 0, chunkIdPrefixIdx)
       IN IF chunkIdPrefixIdx = -1 \/ id \in seen
          THEN IdsFrom_NoNamespaceFilter(Tail(propIds), namespace, seen)
          ELSE <<id>> \o IdsFrom_NoNamespaceFilter(Tail(propIds), namespace, seen \cup {id})

\* Mutant: an id already yielded is yielded again.
RECURSIVE IdsFrom_NoDedup(_, _, _)
IdsFrom_NoDedup(propIds, namespace, seen) ==
  IF propIds = <<>> THEN <<>>
  ELSE LET propId == Head(propIds)
           chunkIdPrefixIdx == lastIndexOf(propId, CHUNK_ID_PREFIX)
           id == Slice(propId, 0, chunkIdPrefixIdx)
       IN IF chunkIdPrefixIdx = -1 THEN IdsFrom_NoDedup(Tail(propIds), namespace, seen)
          ELSE IF namespace # undefined /\ ~startsWith(id, namespace.str \o <<":">>)
            THEN IdsFrom_NoDedup(Tail(propIds), namespace, seen)
          ELSE <<id>> \o IdsFrom_NoDedup(Tail(propIds), namespace, seen)

\* The ids generator run to its end: the ids it yields, in order.  seen is
\* the Set of ids yielded so far.
RECURSIVE IdsFrom(_, _, _)
IdsFrom(propIds, namespace, seen) ==
  IF propIds = <<>> THEN <<>>
  ELSE LET propId == Head(propIds)
           chunkIdPrefixIdx == lastIndexOf(propId, CHUNK_ID_PREFIX)
           id == Slice(propId, 0, chunkIdPrefixIdx)
       IN IF chunkIdPrefixIdx = -1 THEN IdsFrom(Tail(propIds), namespace, seen)
          ELSE IF namespace # undefined /\ ~startsWith(id, namespace.str \o <<":">>)
            THEN IdsFrom(Tail(propIds), namespace, seen)
          ELSE IF id \in seen THEN IdsFrom(Tail(propIds), namespace, seen)
          ELSE <<id>> \o IdsFrom(Tail(propIds), namespace, seen \cup {id})

\* ids(owner, options)
ids(self, owner, options) ==
  IdsFrom(getDynamicPropertyIds(owner), Coalesce(options.namespace, self.namespace), {})

\* values(owner, options), run to its end with no call in between.
values(self, owner, options) ==
  LET yielded == ids(self, owner, options)
  IN [i \in 1..Len(yielded) |-> get(self, owner, yielded[i], options)]

\* entries(owner, options), run to its end with no call in between.
entries(self, owner, options) ==
  LET yielded == ids(self, owner, options)
  IN [i \in 1..Len(yielded) |-> <<yielded[i], get(self, owner, yielded[i], options)>>]

\* ------------------------------------------------------------------------
\* The state machine
\* ------------------------------------------------------------------------

VARIABLES
  owner,        \* the host store: [props, ids, descending]
  namespace,    \* static namespace?: string
  serialize,    \* static serialize, by name
  deserialize,  \* static deserialize, by name
  last          \* the last call: its name and what it returned

vars == <<owner, namespace, serialize, deserialize, last>>

Self == [namespace |-> namespace, serialize |-> serialize, deserialize |-> deserialize]

\* Inputs of the calls.
ns1 == Str(<<"n", "s", "1">>)
ns2 == Str(<<"n", "s", "2">>)
Ids == {<<"a">>}
NamespaceOptions == {undefined, ns1, ns2}
StaticNamespaces == {undefined, ns1}
ShortString == Str(<<"a">>)
LongString == Str(<<"a", "U+E9">>)
Values == {Num(1), Num(2), Num(9001), Num(9002), ShortString, LongString}
Updaters == {[name |-> "inc", arg |-> undefined]}
              \cup {[name |-> "const", arg |-> v] : v \in {undefined, LongString}}

\* The values the calls of the model leave under a full id: any value under
\* the bare id, 1 or the long string under "ns1:a", 2 under "ns2:a".
HeldValues(fullId) ==
  CASE fullId = ns1.str \o <<":", "a">> -> {Num(1), LongString}
    [] fullId = ns2.str \o <<":", "a">> -> {Num(2)}
    [] OTHER -> Values

\* The values a caller stores with the codec of its options: every held
\* value but 9002 (which an update reaches) with the class's JSON codec, 1
\* and the short string with the raw codec (serializer and deserializer
\* passed together).
StoredValues(fullId, codec) ==
  HeldValues(fullId) \cap (IF codec = "none" THEN Values \ {Num(9002)}
                           ELSE {Num(1), ShortString})

CallOptions == {Options(ns, c, c) : ns \in NamespaceOptions, c \in {"none", "raw"}}
JsonOptions == {Options(ns, "none", "none") : ns \in NamespaceOptions}

Call(op, ret) == [op |-> op, ret |-> ret]

FullId(id, options) == _getNamespacedId(Self, id, options.namespace)

Init ==
  /\ owner = EmptyOwner
  /\ namespace = undefined
  /\ serialize = "json"
  /\ deserialize = "json"
  /\ last = Call("none", undefined)

\* The effect of a call on the host store, and the record of the call.
Returns(op, r) ==
  /\ owner' = r.owner
  /\ last' = Call(op, r.ret)
  /\ UNCHANGED <<namespace, serialize, deserialize>>

Set ==
  \E id \in Ids, options \in CallOptions :
    \E value \in StoredValues(FullId(id, options), options.serialize) \cup {undefined} :
      Returns("set", set(Self, owner, id, value, options))

Delete ==
  \E id \in Ids, options \in JsonOptions :
    Returns("delete", delete(Self, owner, id, options))

SetDefault ==
  \E id \in Ids, options \in JsonOptions :
    \E value \in StoredValues(FullId(id, options), options.serialize) :
      Returns("setDefault", setDefault(Self, owner, id, value, options))

\* The adjuster's result is kept within the values of the model.
Adjust ==
  \E id \in Ids, adjuster \in Updaters, options \in JsonOptions :
    \E r \in {adjust(Self, owner, id, adjuster, options)} :
      /\ r.ret \in HeldValues(FullId(id, options)) \cup {undefined}
      /\ Returns("adjust", r)

Update ==
  \E id \in Ids, updater \in Updaters, options \in {Options(undefined, "none", "none")} :
    \E r \in {update(Self, owner, id, updater, options)} :
      /\ r.ret \in HeldValues(id) \cup {undefined}
      /\ Returns("update", r)

\* DynamicProperty.namespace = ...
AssignNamespace ==
  /\ \E ns \in StaticNamespaces : namespace' = ns
  /\ UNCHANGED <<owner, serialize, deserialize, last>>

\* The host store starts listing its keys in the other direction.
HostRelists ==
  /\ owner' = [owner EXCEPT !.ids = Reverse(owner.ids), !.descending = ~owner.descending]
  /\ UNCHANGED <<namespace, serialize, deserialize, last>>

Next ==
  \/ Set
  \/ Delete
  \/ SetDefault
  \/ Adjust
  \/ Update
  \/ AssignNamespace
  \/ HostRelists

Spec == Init /\ [][Next]_vars

\* ------------------------------------------------------------------------
\* A property of twelve chunks or more, and a host that lists its keys in
\* any order
\* ------------------------------------------------------------------------

\* Bounds of this specification.
LongLen == 7
MaxSwaps == 2

RECURSIVE Repeat(_, _)
Repeat(c, n) == IF n = 0 THEN <<>> ELSE <<c>> \o Repeat(c, n - 1)

\* A string whose JSON text, escaped, is 6 * LongLen + 6 characters long.
VeryLongString == Str(Repeat("U+E9", LongLen))

NoOptions == Options(undefined, "none", "none")

\* The number of pairs of keys the listing holds out of ascending key order.
Inversions(keys) ==
  Cardinality({p \in (1..Len(keys)) \X (1..Len(keys)) :
                 p[1] < p[2] /\ KeyLess(keys[p[2]], keys[p[1]])})

InitOrder ==
  /\ owner = set([namespace |-> undefined, serialize |-> "json", deserialize |-> "json"],
                 EmptyOwner, <<"a">>, VeryLongString, NoOptions).owner
  /\ namespace = undefined
  /\ serialize = "json"
  /\ deserialize = "json"
  /\ last = Call("set", undefined)

\* The host moves one key past its neighbour in its listing.
HostSwaps ==
  /\ \E i \in 1..(Len(owner.ids) - 1) :
       LET swapped == [owner.ids EXCEPT ![i] = owner.ids[i + 1], ![i + 1] = owner.ids[i]]
       IN /\ Inversions(swapped) <= MaxSwaps
             \/ Inversions(Reverse(swapped)) <= MaxSwaps
          /\ owner' = [owner EXCEPT !.ids = swapped]
  /\ UNCHANGED <<namespace, serialize, deserialize, last>>

\* get(owner, "a")
Get ==
  /\ last' = Call("get", get(Self, owner, <<"a">>, NoOptions))
  /\ UNCHANGED <<owner, namespace, serialize, deserialize>>

NextOrder ==
  \/ HostSwaps
  \/ HostRelists
  \/ Get

SpecOrder == InitOrder /\ [][NextOrder]_vars

\* ------------------------------------------------------------------------
\* set of a string value, one host write at a time
\* ------------------------------------------------------------------------
\* Here last is the frame of the set in progress or of the call that
\* returned last: pc is "idle", "write" (in the loop over _chunkString) or
\* "delete" (in the loop over the chunks not overwritten); old is the value
\* the property held at the start, value the one being set; encoded,
\* chunkStart are the generator's locals, chunks what it has yielded;
\* chunkId, prevChunkPropertyIds and i are set's locals; writes counts the
\* host writes of the set; interrupted tells that the set was abandoned.

\* Bound: the length of the strings set.
StepLen == 3

StepChars == {"a", "U+E9"}

RECURSIVE StringsOfLen(_)
StringsOfLen(n) ==
  IF n = 0 THEN {<<>>}
  ELSE {<<c>> \o str : c \in StepChars, str \in StringsOfLen(n - 1)}

StepStrings == {Str(str) : str \in UNION {StringsOfLen(n) : n \in 1..StepLen}}

\* The values the property holds at the start, and the values set: the
\* strings, and a number whose JSON text takes three chunks, or one.
StepOldValues == StepStrings \cup {Num(123456789)}
StepValues == StepStrings \cup {Num(7)}

InitialStatics == [namespace |-> undefined, serialize |-> "json", deserialize |-> "json"]

IdleFrame(old) ==
  [op |-> "none", pc |-> "idle", ret |-> undefined, old |-> old, value |-> undefined,
   encoded |-> <<>>, chunkStart |-> 0, chunks |-> <<>>, chunkId |-> 0,
   prevChunkPropertyIds |-> <<>>, i |-> 0, writes |-> 0, interrupted |-> FALSE]

\* The property holds nothing, or a value an earlier set has stored.
InitSteps ==
  /\ \E old \in StepOldValues \cup {undefined} :
       /\ owner = set(InitialStatics, EmptyOwner, <<"a">>, old, NoOptions).owner
       /\ last = IdleFrame(old)
  /\ namespace = undefined
  /\ serialize = "json"
  /\ deserialize = "json"

\* set(owner, "a", value) up to its first host write: the id, the serialized
\* value, the chunk keys present, and the generator's encodeURI.
SetBegin ==
  /\ last.pc = "idle"
  /\ last.value = undefined
  /\ \E value \in StepValues :
       LET fullId == _getNamespacedId(Self, <<"a">>, NoOptions.namespace)
           serialized == ApplySerializer(ActiveSerializer(Self, NoOptions), value, fullId)
       IN last' = [last EXCEPT !.op = "set", !.pc = "write", !.value = value,
                               !.encoded = encodeURI(serialized.str),
                               !.prevChunkPropertyIds = _getChunkPropertyIds(owner, fullId)]
  /\ UNCHANGED <<owner, namespace, serialize, deserialize>>

\* One turn of the loop over _chunkString: the generator yields its next
\* chunk and _setChunk writes it, or the generator is done and set goes on
\* to the chunks not overwritten.
ChunkStep ==
  /\ last.pc = "write"
  /\ IF last.chunkStart < Len(last.encoded)
     THEN LET chunkEnd == ChunkEnd(last.encoded, last.chunkStart)
              chunk == Slice(last.encoded, last.chunkStart, chunkEnd)
              fullId == _getNamespacedId(Self, <<"a">>, NoOptions.namespace)
          IN /\ owner' = _setChunk(owner, fullId, last.chunkId, Str(chunk))
             /\ last' = [last EXCEPT !.chunks = Append(@, chunk), !.chunkId = @ + 1,
                                     !.chunkStart = chunkEnd, !.writes = @ + 1]
     ELSE /\ last' = [last EXCEPT !.pc = "delete", !.i = last.chunkId]
          /\ UNCHANGED owner
  /\ UNCHANGED <<namespace, serialize, deserialize>>

\* One turn of the loop that deletes the chunks not overwritten, or its end
\* and set's return.
DeleteStep ==
  /\ last.pc = "delete"
  /\ IF last.i < Len(last.prevChunkPropertyIds)
     THEN /\ owner' = setDynamicProperty(owner, last.prevChunkPropertyIds[last.i + 1],
                                         undefined)
          /\ last' = [last EXCEPT !.i = @ + 1, !.writes = @ + 1]
     ELSE /\ last' = [last EXCEPT !.pc = "idle", !.ret = undefined]
          /\ UNCHANGED owner
  /\ UNCHANGED <<namespace, serialize, deserialize>>

\* Is a host write of the set in progress still to come?
WriteRemains ==
  \/ /\ last.pc = "write"
     /\ \/ last.chunkStart < Len(last.encoded)
        \/ last.chunkId < Len(last.prevChunkPropertyIds)
  \/ /\ last.pc = "delete"
     /\ last.i < Len(last.prevChunkPropertyIds)

\* The script is stopped between two host writes of the set; the host store
\* stays as the writes done so far left it.
Interrupt ==
  /\ last.writes >= 1
  /\ WriteRemains
  /\ last' = [last EXCEPT !.pc = "idle", !.interrupted = TRUE]
  /\ UNCHANGED <<owner, namespace, serialize, deserialize>>

\* get(owner, "a") between calls.
GetStep ==
  /\ last.pc = "idle"
  /\ last.op # "get"
  /\ last' = [last EXCEPT !.op = "get", !.ret = get(Self, owner, <<"a">>, NoOptions)]
  /\ UNCHANGED <<owner, namespace, serialize, deserialize>>

NextChunk ==
  \/ SetBegin
  \/ ChunkStep
  \/ DeleteStep
  \/ GetStep

\* Calls run to completion; the loop over the generator is always resumed.
SpecChunk == InitSteps /\ [][NextChunk]_vars /\ WF_vars(ChunkStep)

NextSteps ==
  \/ SetBegin
  \/ ChunkStep
  \/ DeleteStep
  \/ Interrupt
  \/ GetStep

\* Calls that a stop of the script can cut short.
SpecSteps == InitSteps /\ [][NextSteps]_vars

\* ------------------------------------------------------------------------
\* A host store that other code writes to as well
\* ------------------------------------------------------------------------
\* The host store is shared: it can hold keys this class never wrote, and
\* chunk runs with gaps.  Here last.ret of ids, values and entries is an
\* array: the items yielded, in order.

Arr(items) == [kind |-> "array", str |-> <<>>, num |-> <<>>, bool |-> FALSE,
               items |-> items]

\* The keys the host store may hold at the start, with their values: chunks
\* 0, 1 and 5 of "a", chunk 0 of "ns1:a", a key with no separator, and a
\* key whose text after the last separator is no decimal number.
HostKeys ==
  << [key |-> <<"a", "_", "0">>, value |-> Str(<<"1">>)],
     [key |-> <<"a", "_", "1">>, value |-> Str(<<"2">>)],
     [key |-> <<"a", "_", "5">>, value |-> Str(<<"3">>)],
     [key |-> <<"n", "s", "1", ":", "a", "_", "0">>, value |-> Str(<<"4">>)],
     [key |-> <<"a">>, value |-> Num(7)],
     [key |-> <<"a", "_", "1", "b">>, value |-> Num(7)] >>

\* The host store that holds the keys of HostKeys numbered in held.
RECURSIVE HostStore(_, _)
HostStore(held, n) ==
  IF n = 0 THEN EmptyOwner
  ELSE IF n \in held
    THEN setDynamicProperty(HostStore(held, n - 1), HostKeys[n].key, HostKeys[n].value)
  ELSE HostStore(held, n - 1)

HostIds == {<<"a">>}
HostNamespaces == {undefined, ns1}
HostOptions == {Options(ns, "none", "none") : ns \in HostNamespaces}
HostValues == {Num(1), ShortString}

InitHost ==
  /\ \E held \in SUBSET (1..Len(HostKeys)) : owner = HostStore(held, Len(HostKeys))
  /\ namespace = undefined
  /\ serialize = "json"
  /\ deserialize = "json"
  /\ last = Call("none", undefined)

Reads(op, ret) ==
  /\ last' = Call(op, ret)
  /\ UNCHANGED <<owner, namespace, serialize, deserialize>>

HostGet ==
  \E id \in HostIds, options \in HostOptions :
    Reads("get", get(Self, owner, id, options))

HostExists ==
  \E id \in HostIds, options \in HostOptions :
    Reads("exists", Bool(exists(Self, owner, id, options)))

HostListIds ==
  \E options \in HostOptions : Reads("ids", Arr(ids(Self, owner, options)))

HostListValues ==
  \E options \in HostOptions : Reads("values", Arr(values(Self, owner, options)))

HostListEntries ==
  \E options \in HostOptions : Reads("entries", Arr(entries(Self, owner, options)))

HostSet ==
  \E value \in HostValues, options \in HostOptions :
    Returns("set", set(Self, owner, <<"a">>, value, options))

NextHost ==
  \/ HostGet
  \/ HostExists
  \/ HostListIds
  \/ HostListValues
  \/ HostListEntries
  \/ HostSet
  \/ AssignNamespace
  \/ HostRelists

SpecHost == InitHost /\ [][NextHost]_vars

\* ------------------------------------------------------------------------
\* Callers that bring their own serializer
\* ------------------------------------------------------------------------
\* The serializer (value) => value hands set whatever the caller passes: a
\* host primitive, or something the host cannot hold.  Here last also tells
\* how many chunks the property had before the call.

\* What the identity serializer is given: host primitives (a number, a
\* boolean, a Vector3, strings of one chunk and of two, the empty string)
\* and values that are none (an object that is no Vector3, null, a
\* function).
RawPrimitives == {Num(1), Bool(TRUE), Vec(1, 2, 3), ShortString, LongString, Str(<<>>)}
RawInvalid == {Obj("o"), null, Fun("f")}

\* What the JSON serializer is given: values it turns into a string, and a
\* function, for which JSON.stringify returns undefined.
JsonValues == {Num(1), ShortString, LongString, Fun("f")}

SerializerNames == {"json", "raw"}
SerializerOptions == {Options(undefined, c, d) : c, d \in {"none", "raw"}}

SerializerCall(op, ret, before) == [op |-> op, ret |-> ret, before |-> before]

InitSerializer ==
  /\ owner = EmptyOwner
  /\ namespace = undefined
  /\ serialize = "json"
  /\ deserialize = "json"
  /\ last = SerializerCall("none", undefined, 0)

\* DynamicProperty.serialize = ...
AssignSerialize ==
  /\ \E name \in SerializerNames : serialize' = name
  /\ UNCHANGED <<owner, namespace, deserialize, last>>

\* DynamicProperty.deserialize = ...
AssignDeserialize ==
  /\ \E name \in SerializerNames : deserialize' = name
  /\ UNCHANGED <<owner, namespace, serialize, last>>

SerializerSet ==
  \E options \in SerializerOptions :
    \E value \in (IF ActiveSerializer(Self, options) = "raw"
                  THEN RawPrimitives \cup RawInvalid ELSE JsonValues) :
      LET r == set(Self, owner, <<"a">>, value, options)
      IN /\ owner' = r.owner
         /\ last' = SerializerCall("set", r.ret, Len(_getChunkPropertyIds(owner, <<"a">>)))
         /\ UNCHANGED <<namespace, serialize, deserialize>>

SerializerGet ==
  \E options \in SerializerOptions :
    /\ last' = SerializerCall("get", get(Self, owner, <<"a">>, options),
                              Len(_getChunkPropertyIds(owner, <<"a">>)))
    /\ UNCHANGED <<owner, namespace, serialize, deserialize>>

NextSerializer ==
  \/ AssignSerialize
  \/ AssignDeserialize
  \/ SerializerSet
  \/ SerializerGet

SpecSerializer == InitSerializer /\ [][NextSerializer]_vars

\* ------------------------------------------------------------------------
\* Several logical ids side by side in one host store
\* ------------------------------------------------------------------------
\* The calls address three ids: "a", "a_1" (chunk 1 of "a" has the key
\* "a_1", the id "a_1" the keys "a_1_0", "a_1_1", ...) and "a." (whose
\* pattern, were the dot not escaped, would match keys of "ab").  The host
\* store holds keys of other ids and of other code from the start.  Here
\* last also names the id of the call.

\* The host store at the start holds any of: chunk 0 of "ab", chunk 0 of
\* "ba", a key of other code that begins like a chunk of "a", and chunk 5
\* of "a" with no chunk below it.
InitFrame ==
  /\ \E held \in SUBSET { <<"a", "b", "_", "0">>, <<"b", "a", "_", "0">>,
                          <<"a", "_", "1", "b">>, <<"a", "_", "5">> } :
       LET put(o, key) == IF key \in held
                          THEN setDynamicProperty(o, key, Str(<<"5">>)) ELSE o
       IN owner = put(put(put(put(EmptyOwner,
                    <<"a", "b", "_", "0">>), <<"b", "a", "_", "0">>),
                    <<"a", "_", "1", "b">>), <<"a", "_", "5">>)
  /\ namespace = undefined
  /\ serialize = "json"
  /\ deserialize = "json"
  /\ last = [op |-> "none", ret |-> undefined, id |-> <<>>]

FrameSet ==
  \E id \in {<<"a">>, <<"a", "_", "1">>, <<"a", ".">>},
     value \in HostValues \cup {undefined} :
    LET r == set(Self, owner, id, value, NoOptions)
    IN /\ owner' = r.owner
       /\ last' = [op |-> "set", ret |-> r.ret, id |-> id]
       /\ UNCHANGED <<namespace, serialize, deserialize>>

FrameDelete ==
  \E id \in {<<"a">>, <<"a", "_", "1">>, <<"a", ".">>} :
    LET r == delete(Self, owner, id, NoOptions)
    IN /\ owner' = r.owner
       /\ last' = [op |-> "delete", ret |-> r.ret, id |-> id]
       /\ UNCHANGED <<namespace, serialize, deserialize>>

FrameSetDefault ==
  \E id \in {<<"a">>, <<"a", "_", "1">>, <<"a", ".">>}, value \in HostValues :
    LET r == setDefault(Self, owner, id, value, NoOptions)
    IN /\ owner' = r.owner
       /\ last' = [op |-> "setDefault", ret |-> r.ret, id |-> id]
       /\ UNCHANGED <<namespace, serialize, deserialize>>

\* The adjuster is () => value.
FrameAdjust ==
  \E id \in {<<"a">>, <<"a", "_", "1">>, <<"a", ".">>}, value \in HostValues :
    LET r == adjust(Self, owner, id, [name |-> "const", arg |-> value], NoOptions)
    IN /\ owner' = r.owner
       /\ last' = [op |-> "adjust", ret |-> r.ret, id |-> id]
       /\ UNCHANGED <<namespace, serialize, deserialize>>

NextFrame ==
  \/ FrameSet
  \/ FrameDelete
  \/ FrameSetDefault
  \/ FrameAdjust

SpecFrame == InitFrame /\ [][NextFrame]_vars

\* ------------------------------------------------------------------------
\* An ids, values or entries sequence advanced between other calls
\* ------------------------------------------------------------------------
\* ids, values and entries are generators: calling one runs none of its
\* body, and each next() runs it up to the following yield.  The first
\* next() evaluates owner.getDynamicPropertyIds(), an array, and the loop
\* goes over that array from then on.  Here last is the generator: its kind,
\* whether it was advanced, the array it goes over, its Set of ids yielded,
\* and the items it yielded so far, each with the id it stands for, the
\* value read for it (values and entries) and, for the properties, whether
\* the id had a chunk when the item was yielded.

InitEnum ==
  /\ owner = EmptyOwner
  /\ namespace = undefined
  /\ serialize = "json"
  /\ deserialize = "json"
  /\ \E kind \in {"ids", "values", "entries"} :
       last = [kind |-> kind, started |-> FALSE, listing |-> <<>>, seen |-> {},
               yielded |-> <<>>]

\* Mutant: the keys are listed again at every step.
EnumNext_ListsAgain ==
  LET listing == getDynamicPropertyIds(owner)
      rest == IdsFrom(listing, Coalesce(NoOptions.namespace, namespace), last.seen)
  IN /\ IF rest = <<>>
        THEN /\ ~last.started
             /\ last' = [last EXCEPT !.started = TRUE, !.listing = IF last.started THEN @ ELSE listing]
        ELSE LET id == Head(rest)
             IN last' = [last EXCEPT
                           !.started = TRUE,
                           !.listing = IF last.started THEN @ ELSE listing,
                           !.seen = @ \cup {id},
                           !.yielded = Append(@,
                              [id |-> id,
                               value |-> IF last.kind = "ids" THEN undefined
                                         ELSE get(Self, owner, id, NoOptions),
                               existed |-> exists(Self, owner, id, NoOptions)])]
     /\ UNCHANGED <<owner, namespace, serialize, deserialize>>

\* next(): the loop over the array goes on to the next key whose id passes
\* the namespace filter and is not in the Set, and yields (ids: the id;
\* values: get of it; entries: the two); a loop that finds none ends the
\* generator, and a next() after that changes nothing.
EnumNext ==
  LET listing == IF last.started THEN last.listing ELSE getDynamicPropertyIds(owner)
      rest == IdsFrom(listing, Coalesce(NoOptions.namespace, namespace), last.seen)
  IN /\ IF rest = <<>>
        THEN /\ ~last.started
             /\ last' = [last EXCEPT !.started = TRUE, !.listing = listing]
        ELSE LET id == Head(rest)
             IN last' = [last EXCEPT
                           !.started = TRUE,
                           !.listing = listing,
                           !.seen = @ \cup {id},
                           !.yielded = Append(@,
                              [id |-> id,
                               value |-> IF last.kind = "ids" THEN undefined
                                         ELSE get(Self, owner, id, NoOptions),
                               existed |-> exists(Self, owner, id, NoOptions)])]
     /\ UNCHANGED <<owner, namespace, serialize, deserialize>>

\* A set on the same owner, before the first next() or between two.
EnumSet ==
  \E id \in {<<"a">>, <<"b">>, <<"n">>}, value \in HostValues :
    /\ owner' = set(Self, owner, id, value, NoOptions).owner
    /\ UNCHANGED <<namespace, serialize, deserialize, last>>

\* A delete on the same owner, before the first next() or between two.
EnumDelete ==
  \E id \in {<<"a">>, <<"b">>, <<"n">>} :
    /\ owner' = delete(Self, owner, id, NoOptions).owner
    /\ UNCHANGED <<namespace, serialize, deserialize, last>>

NextEnum ==
  \/ EnumNext
  \/ EnumSet
  \/ EnumDelete

SpecEnum == InitEnum /\ [][NextEnum]_vars

\* ------------------------------------------------------------------------
\* Properties
\* ------------------------------------------------------------------------

\* The calls the properties range over: every id, namespace option and
\* codec of the model, and every value.
SetArguments ==
  {<<id, value, options>> : id \in Ids, value \in Values \cup {undefined},
                             options \in CallOptions}

\* The chunk keys of fullId present in the host store: fullId, the separator
\* and one or more decimal digits.
PresentKeys(o, fullId) ==
  {key \in DOMAIN o.props :
     /\ Len(key) > Len(fullId) + 1
     /\ SubSeq(key, 1, Len(fullId) + 1) = fullId \o <<CHUNK_ID_PREFIX>>
     /\ \A i \in (Len(fullId) + 2)..Len(key) : key[i] \in DigitSet}

\* The chunk indices of fullId present in the host store.
PresentIndices(o, fullId) ==
  {parseInt(SubSeq(key, Len(fullId) + 2, Len(key))) : key \in PresentKeys(o, fullId)}

\* The chunk keys of fullId are those of the indices 0..n-1.
HoldsIndices(o, fullId, n) ==
  PresentKeys(o, fullId) = {fullId \o <<CHUNK_ID_PREFIX>> \o ToDecimal(i) : i \in 0..(n - 1)}

\* The full ids the calls of the model address.
AllFullIds ==
  Ids \cup {ns.str \o <<":">> \o id : ns \in (NamespaceOptions \ {undefined}), id \in Ids}

\* The number of chunks a string value takes: its escaped length over the
\* chunk size, rounded up.
ChunksNeeded(str) == (Len(encodeURI(str)) + MAX_CHUNK_SIZE - 1) \div MAX_CHUNK_SIZE

\* C1: in every reachable state, for every id, options and supported value
\* V, set(owner, id, V, options) returns normally and get(owner, id,
\* options) right after it returns V, whatever id held before.
C1_RoundTrip ==
  \A a \in SetArguments :
    LET r == set(Self, owner, a[1], a[2], a[3])
    IN /\ r.ret = undefined
       /\ get(Self, r.owner, a[1], a[3]) = a[2]

\* A set has left a value of four chunks under "a", which reads back; a
\* set of the short string over it reads back the short string.
C1_Witness ==
  /\ last.op = "set"
  /\ namespace = undefined
  /\ PresentIndices(owner, <<"a">>) = 0..3
  /\ get(Self, owner, <<"a">>, NoOptions) = LongString
  /\ get(Self, set(Self, owner, <<"a">>, ShortString, NoOptions).owner, <<"a">>, NoOptions)
       = ShortString

\* C2: starting from an empty host store, after any sequence of completed
\* set, delete, update and setDefault calls, the chunk keys of every id are
\* those of the indices 0..n-1 for some n >= 0, and chunk 0 is present
\* exactly when exists(owner, id) is true.
C2_Contiguity ==
  /\ \A fullId \in AllFullIds :
       HoldsIndices(owner, fullId, Cardinality(PresentKeys(owner, fullId)))
  /\ \A id \in Ids, options \in CallOptions :
       (0 \in PresentIndices(owner, FullId(id, options))) <=> exists(Self, owner, id, options)

\* A delete has emptied one id while another holds several chunks and a
\* third one chunk.
C2_Witness ==
  /\ last.op = "delete"
  /\ PresentIndices(owner, <<"a">>) = {}
  /\ Cardinality(PresentIndices(owner, ns1.str \o <<":", "a">>)) > 1
  /\ PresentIndices(owner, ns2.str \o <<":", "a">>) = {0}

\* C3: when id holds m chunks and set stores a string value that takes
\* k < m chunks, then after the set the chunk keys of id are exactly those of
\* the indices 0..k-1.
C3_ShrinkCleanup ==
  \A a \in SetArguments :
    LET fullId == FullId(a[1], a[3])
        serialized == ApplySerializer(ActiveSerializer(Self, a[3]), a[2], fullId)
        m == Cardinality(PresentKeys(owner, fullId))
    IN (a[2] # undefined /\ typeof(serialized) = "string"
          /\ ChunksNeeded(serialized.str) < m)
       => HoldsIndices(set(Self, owner, a[1], a[2], a[3]).owner, fullId,
                       ChunksNeeded(serialized.str))

\* A set has stored the long string in four chunks, and a set of the short
\* string, which takes two, leaves the chunks 0 and 1.
C3_Witness ==
  /\ last.op = "set"
  /\ namespace = undefined
  /\ PresentIndices(owner, <<"a">>) = 0..3
  /\ ChunksNeeded(JSON_stringify(ShortString).str) = 2
  /\ PresentIndices(set(Self, owner, <<"a">>, ShortString, NoOptions).owner, <<"a">>) = {0, 1}

\* C4: after delete(owner, id, options), and after set(owner, id, Absent,
\* options), no chunk key of the namespaced id remains, exists is false and
\* get returns Absent, however many chunks id had.
C4_Deletion ==
  \A id \in Ids, options \in CallOptions :
    \A r \in {delete(Self, owner, id, options), set(Self, owner, id, undefined, options)} :
      /\ PresentKeys(r.owner, FullId(id, options)) = {}
      /\ ~exists(Self, r.owner, id, options)
      /\ get(Self, r.owner, id, options) = undefined

\* "a" holds four chunks, and a delete leaves none of them.
C4_Witness ==
  /\ namespace = undefined
  /\ PresentIndices(owner, <<"a">>) = 0..3
  /\ PresentKeys(delete(Self, owner, <<"a">>, NoOptions).owner, <<"a">>) = {}
  /\ PresentKeys(set(Self, owner, <<"a">>, undefined, NoOptions).owner, <<"a">>) = {}

Ns1Options == Options(ns1, "none", "none")
Ns2Options == Options(ns2, "none", "none")

\* The namespace a call with these options addresses.
ActiveNamespace(options) == Coalesce(options.namespace, namespace)

\* C5: after set(owner, "a", 1, {namespace: "ns1"}) and set(owner, "a", 2,
\* {namespace: "ns2"}), in either order, get under "ns1" returns 1 and get
\* under "ns2" returns 2; and a set or delete of an id under one namespace
\* leaves what get returns for that id under every other namespace.
C5_NamespaceIsolation ==
  /\ \A first \in {1, 2} :
       LET one(o) == set(Self, o, <<"a">>, Num(1), Ns1Options).owner
           two(o) == set(Self, o, <<"a">>, Num(2), Ns2Options).owner
           after == IF first = 1 THEN two(one(owner)) ELSE one(two(owner))
       IN /\ get(Self, after, <<"a">>, Ns1Options) = Num(1)
          /\ get(Self, after, <<"a">>, Ns2Options) = Num(2)
  /\ \A a \in SetArguments :
       LET written == set(Self, owner, a[1], a[2], a[3]).owner
           deleted == delete(Self, owner, a[1], a[3]).owner
       IN \A other \in JsonOptions :
            ActiveNamespace(a[3]) # ActiveNamespace(other) =>
              /\ get(Self, written, a[1], other) = get(Self, owner, a[1], other)
              /\ get(Self, deleted, a[1], other) = get(Self, owner, a[1], other)

\* Sets have stored 1 under "ns1" and 2 under "ns2", next to a value of
\* several chunks under no namespace.
C5_Witness ==
  /\ last.op = "set"
  /\ namespace = undefined
  /\ get(Self, owner, <<"a">>, Ns1Options) = Num(1)
  /\ get(Self, owner, <<"a">>, Ns2Options) = Num(2)
  /\ get(Self, owner, <<"a">>, NoOptions) = LongString

\* The only properties written are "a" = 1 under "ns1" and "a" = 2 under
\* "ns2".
OnlyNs1AndNs2Written ==
  /\ DOMAIN owner.props = {_getChunkPropertyId(ns1.str \o <<":", "a">>, 0),
                           _getChunkPropertyId(ns2.str \o <<":", "a">>, 0)}
  /\ get(Self, owner, <<"a">>, Ns1Options) = Num(1)
  /\ get(Self, owner, <<"a">>, Ns2Options) = Num(2)

\* C6 as claimed: when the only properties written are "a" = 1 under "ns1"
\* and "a" = 2 under "ns2", ids(owner, {namespace: "ns1"}) yields exactly
\* ["a"], the id as the caller passed it to set.
C6_IdsYieldCallerId ==
  OnlyNs1AndNs2Written => ids(Self, owner, Ns1Options) = << <<"a">> >>

\* C6 as amended: in that state ids(owner, {namespace: "ns1"}) yields
\* exactly ["ns1:a"], the id with its namespace prefix.
C6_IdsYieldNamespacedId ==
  OnlyNs1AndNs2Written => ids(Self, owner, Ns1Options) = << ns1.str \o <<":", "a">> >>

\* The two sets have been made, and nothing else is stored.
C6_Witness == last.op = "set" /\ OnlyNs1AndNs2Written

\* The value stored for the logical property a yielded id names.
StoredValue(o, yieldedId, options) ==
  get([Self EXCEPT !.namespace = undefined], o, yieldedId,
      [options EXCEPT !.namespace = undefined])

\* C7: for every namespace setting (none, per-call option, process-wide
\* default), entries(owner, options) yields for each id of ids(owner,
\* options), in the same order, the pair of that id and the value stored for
\* it, never Absent; values(owner, options) yields those values.
C7_EntriesPairIdWithStoredValue ==
  \A options \in CallOptions :
    LET yielded == ids(Self, owner, options)
    IN /\ entries(Self, owner, options) =
            [i \in 1..Len(yielded) |-> <<yielded[i], StoredValue(owner, yielded[i], options)>>]
       /\ values(Self, owner, options) =
            [i \in 1..Len(yielded) |-> StoredValue(owner, yielded[i], options)]
       /\ \A i \in 1..Len(yielded) : entries(Self, owner, options)[i][2] # undefined

C9_Idempotence ==
  \A a \in SetArguments :
    LET once == set(Self, owner, a[1], a[2], a[3]).owner
        twice == set(Self, once, a[1], a[2], a[3]).owner
    IN twice = once

\* A set has stored the long string in four chunks over a longer run or a
\* shorter one, and setting it again changes nothing.
C9_Witness ==
  /\ last.op = "set"
  /\ namespace = ns1
  /\ PresentIndices(owner, ns1.str \o <<":", "a">>) = 0..3
  /\ set(Self, owner, <<"a">>, LongString, NoOptions).owner = owner

\* C10: for a property stored in 12 or more chunks, the chunk keys are
\* taken in ascending numeric index and get returns the stored value, in
\* whatever order the host lists its keys.
C10_NumericOrder ==
  LET propIds == _getChunkPropertyIds(owner, <<"a">>)
  IN Len(propIds) >= 12 =>
       /\ propIds = [i \in 1..Len(propIds) |-> _getChunkPropertyId(<<"a">>, i - 1)]
       /\ get(Self, owner, <<"a">>, NoOptions) = VeryLongString
       /\ last.op = "get" => last.ret = VeryLongString

\* A get has returned the value of 12 chunks or more from a listing that
\* is in neither key order and does not start with chunk 0.
C10_Witness ==
  /\ last.op = "get"
  /\ last.ret = VeryLongString
  /\ Len(owner.ids) >= 12
  /\ Inversions(owner.ids) >= 2
  /\ Inversions(Reverse(owner.ids)) >= 2
  /\ owner.ids[1] # _getChunkPropertyId(<<"a">>, 0)

\* ------------------------------------------------------------------------
\* Properties of the segmentation and of set taken step by step
\* ------------------------------------------------------------------------

RECURSIVE Concat(_)
Concat(seqs) == IF seqs = <<>> THEN <<>> ELSE Head(seqs) \o Concat(Tail(seqs))

\* The number of units in the first j chunks: the offset of the cut after
\* chunk j.
CutAfter(chunks, j) == Len(Concat(SubSeq(chunks, 1, j)))

\* The positions of encoded where an escape triplet starts.  encodeURI
\* escapes "%" itself, so every "%" of its result starts a triplet.
TripletStarts(encoded) == {k \in 1..Len(encoded) : encoded[k] = "%"}

\* A cut at offset cut leaves units of one triplet on both sides.
SplitsTriplet(encoded, cut) ==
  \E k \in TripletStarts(encoded) : k <= cut /\ cut <= k + 1

\* The index of the chunk that holds position p.
ChunkOf(chunks, p) ==
  CHOOSE j \in 1..Len(chunks) :
    /\ CutAfter(chunks, j) >= p
    /\ \A h \in 1..(j - 1) : CutAfter(chunks, h) < p

\* The set begun has returned, and was not cut short.
Completed == last.pc = "idle" /\ last.value # undefined /\ ~last.interrupted

\* The set taken step by step leaves the host store as set does.
StepsRefineSet ==
  Completed =>
    owner = set(Self, set(InitialStatics, EmptyOwner, <<"a">>, last.old, NoOptions).owner,
                <<"a">>, last.value, NoOptions).owner

\* C11: with a small MAX_CHUNK_SIZE, a string whose multi-byte characters
\* (escape triplets once transformed) fall at or across a chunk boundary is
\* returned unchanged by get after set, whatever the property held before.
C11_ByteSafetyRoundTrip ==
  (Completed /\ last.op = "get") => last.ret = last.value

\* get has returned the string set, one of whose chunks ends inside an
\* escape triplet and another right before one.
C11_Witness ==
  /\ Completed
  /\ last.op = "get"
  /\ last.ret = last.value
  /\ \E j \in 1..(Len(last.chunks) - 1) :
       SplitsTriplet(last.encoded, CutAfter(last.chunks, j))
  /\ \E j \in 1..(Len(last.chunks) - 1) :
       CutAfter(last.chunks, j) + 1 \in TripletStarts(last.encoded)

\* C18 as claimed: no chunk the segmentation yields ends inside an escape
\* triplet of the transformed string.
C18_NeverSplitsTriplet ==
  \A j \in 1..Len(last.chunks) :
    ~SplitsTriplet(last.encoded, CutAfter(last.chunks, j))

\* C18 as amended: the chunks yielded, joined in index order, are the
\* transformed string up to the generator's position, and an escape triplet
\* lies whole in one chunk exactly when it straddles no multiple of
\* MAX_CHUNK_SIZE: the cuts fall at the window's multiples, inside a triplet
\* or not.
C18_SplitsAtWindowMultiples ==
  /\ Concat(last.chunks) = SubSeq(last.encoded, 1, last.chunkStart)
  /\ \A k \in TripletStarts(last.encoded) :
       k + 2 <= last.chunkStart =>
         ((ChunkOf(last.chunks, k) = ChunkOf(last.chunks, k + 2))
            <=> ((k - 1) \div MAX_CHUNK_SIZE = (k + 1) \div MAX_CHUNK_SIZE))

\* The generator is done; one triplet was split between two chunks and
\* another lies whole in one.
C18_Witness ==
  /\ last.pc = "delete"
  /\ \E k \in TripletStarts(last.encoded) :
       ChunkOf(last.chunks, k) # ChunkOf(last.chunks, k + 2)
  /\ \E k \in TripletStarts(last.encoded) :
       ChunkOf(last.chunks, k) = ChunkOf(last.chunks, k + 2)

\* The chunks yielded so far are non-empty, of at most MAX_CHUNK_SIZE units,
\* all but the latest of exactly MAX_CHUNK_SIZE, and joined they are the
\* transformed string up to the generator's position: all of it once the
\* generator is done.
PartitionSoFar ==
  /\ \A j \in 1..Len(last.chunks) :
       /\ last.chunks[j] # <<>>
       /\ Len(last.chunks[j]) <= MAX_CHUNK_SIZE
       /\ j < Len(last.chunks) => Len(last.chunks[j]) = MAX_CHUNK_SIZE
  /\ Concat(last.chunks) = SubSeq(last.encoded, 1, last.chunkStart)
  /\ (last.value # undefined /\ last.pc # "write") =>
       Concat(last.chunks) = encodeURI(JSON_stringify(last.value).str)

\* C19: the chunks the segmentation produces are non-empty, each of at most
\* MAX_CHUNK_SIZE units, every one but the last of exactly MAX_CHUNK_SIZE,
\* their concatenation in index order is the transformed string, and the
\* segmentation loop comes to its end.
C19_SizeBoundedPartition ==
  /\ []PartitionSoFar
  /\ (last.pc = "write") ~> (last.pc = "delete")

\* The generator is done after three chunks or more, the last one shorter
\* than MAX_CHUNK_SIZE.
C19_Witness ==
  /\ last.pc = "delete"
  /\ Len(last.chunks) >= 3
  /\ Len(last.chunks[Len(last.chunks)]) < MAX_CHUNK_SIZE
  /\ Concat(last.chunks) = last.encoded

\* The chunks of the value the property held when the set began, and of
\* the value being set.
OldChunks == IF last.old = undefined THEN <<>> ELSE _chunkString(JSON_stringify(last.old).str)
NewChunks == IF last.value = undefined THEN <<>> ELSE _chunkString(JSON_stringify(last.value).str)

\* The indices of the old chunks the set has deleted so far.
DeletedSoFar == last.chunkId..(last.i - 1)

\* C20: set is not atomic across its host writes.  At every point of a set
\* that rewrites the property, and after a stop between two of its host
\* writes, the host store holds the new chunks written so far (in ascending
\* index), the old chunks at the indices not yet overwritten, less the old
\* chunks deleted so far (in ascending position): nothing is rolled back or
\* repaired, so the run can have a gap or a stale tail.
C20_SetNotAtomic ==
  last.value # undefined =>
    /\ PresentIndices(owner, <<"a">>)
         = (0..(last.chunkId - 1))
             \cup ({j \in 0..(Len(OldChunks) - 1) : j >= last.chunkId} \ DeletedSoFar)
    /\ \A j \in PresentIndices(owner, <<"a">>) :
         getDynamicProperty(owner, _getChunkPropertyId(<<"a">>, j))
           = Str(IF j < last.chunkId THEN NewChunks[j + 1] ELSE OldChunks[j + 1])

\* A set was stopped between two host writes and left a chunk run with a
\* gap and a stale tail; the get that followed returned, without an error,
\* a value that is neither the old one nor the new one.
C20_Witness ==
  /\ last.interrupted
  /\ last.op = "get"
  /\ last.ret.kind # "throw"
  /\ last.ret # last.old
  /\ last.ret # last.value
  /\ \E j \in PresentIndices(owner, <<"a">>) : j >= Len(NewChunks)
  /\ \E j \in 1..10 : j \notin PresentIndices(owner, <<"a">>)
                      /\ j + 1 \in PresentIndices(owner, <<"a">>)

\* ------------------------------------------------------------------------
\* Properties over a host store that other code writes to as well
\* ------------------------------------------------------------------------

\* C13 as claimed: get(owner, id) returns Absent exactly when no chunk with
\* index 0 exists for id, in every host-store state, chunk runs with gaps
\* included.
C13_AbsentIffNoChunkZero ==
  \A id \in HostIds, options \in HostOptions :
    (get(Self, owner, id, options) = undefined)
      <=> (0 \notin PresentIndices(owner, FullId(id, options)))

\* C13 as amended: get(owner, id) returns Absent, and raises no error,
\* exactly when no chunk of id exists at any index, in every host-store
\* state, foreign keys and chunk runs with gaps included.
C13_AbsentIffNoChunk ==
  \A id \in HostIds, options \in HostOptions :
    (get(Self, owner, id, options) = undefined)
      <=> (PresentKeys(owner, FullId(id, options)) = {})

\* get has returned Absent from a host store that holds nothing but foreign
\* keys.
C13_Witness ==
  /\ last.op = "get"
  /\ last.ret = undefined
  /\ DOMAIN owner.props = {<<"a">>, <<"a", "_", "1", "b">>}

\* The keys of the host store that have no separator, or whose text after
\* the last separator is no non-negative integer.
ForeignKeys(o) ==
  {key \in DOMAIN o.props :
     LET idx == lastIndexOf(key, CHUNK_ID_PREFIX)
         suffix == SliceFrom(key, idx + 1)
     IN \/ idx = -1
        \/ suffix = <<>>
        \/ \E i \in 1..Len(suffix) : suffix[i] \notin DigitSet}

\* The host store without those keys.
WithoutForeignKeys(o) ==
  LET Recognized(key) == key \notin ForeignKeys(o)
  IN [o EXCEPT !.props = [key \in DOMAIN o.props \ ForeignKeys(o) |-> o.props[key]],
               !.ids = SelectSeq(o.ids, Recognized)]

\* C14: a host key with no separator, or whose text after the last separator
\* is no non-negative integer, is ignored: ids, values, entries, exists and
\* get give what they give on the host store without such keys, and raise
\* no error.
C14_ForeignKeysIgnored ==
  LET clean == WithoutForeignKeys(owner)
  IN \A options \in HostOptions :
       /\ ids(Self, owner, options) = ids(Self, clean, options)
       /\ values(Self, owner, options) = values(Self, clean, options)
       /\ entries(Self, owner, options) = entries(Self, clean, options)
       /\ \A id \in HostIds :
            /\ exists(Self, owner, id, options) = exists(Self, clean, id, options)
            /\ get(Self, owner, id, options) = get(Self, clean, id, options)

\* The logical ids the keys of the model can make up.
LogicalIds == {<<"a">>, ns1.str \o <<":", "a">>}

\* The place in the host's listing of the first key that stands for id.
FirstSighting(o, id) ==
  LET at == {n \in 1..Len(o.ids) :
               /\ lastIndexOf(o.ids[n], CHUNK_ID_PREFIX) # -1
               /\ Slice(o.ids[n], 0, lastIndexOf(o.ids[n], CHUNK_ID_PREFIX)) = id}
  IN CHOOSE n \in at : \A other \in at : n <= other

\* C15: one ids(owner, {namespace}) sequence yields no id twice, yields
\* every logical id that has at least one chunk in the host store and passes
\* the filter, in the order of first sighting, and when a namespace N is
\* active (the option, else the static default) every id it yields starts
\* with N followed by ":".
C15_DistinctAndFiltered ==
  \A options \in HostOptions :
    LET yielded == ids(Self, owner, options)
        active == Coalesce(options.namespace, namespace)
    IN /\ \A i, j \in 1..Len(yielded) : yielded[i] = yielded[j] => i = j
       /\ \A fullId \in LogicalIds :
            (/\ PresentKeys(owner, fullId) # {}
             /\ active # undefined => startsWith(fullId, active.str \o <<":">>))
              => \E i \in 1..Len(yielded) : yielded[i] = fullId
       /\ active # undefined =>
            \A i \in 1..Len(yielded) : startsWith(yielded[i], active.str \o <<":">>)
       /\ \A i, j \in 1..Len(yielded) :
            i < j => FirstSighting(owner, yielded[i]) < FirstSighting(owner, yielded[j])

\* ids under namespace "ns1" has yielded "ns1:a", a property of two chunks,
\* once, and nothing else, from a host store that also holds chunks of "a".
C15_Witness ==
  /\ last.op = "ids"
  /\ last.ret.items = <<ns1.str \o <<":", "a">>>>
  /\ Cardinality(PresentKeys(owner, ns1.str \o <<":", "a">>)) >= 2
  /\ Cardinality(PresentKeys(owner, <<"a">>)) >= 2

\* C16: when set(owner, id, V) serializes V to a string of k chunks, no
\* chunk key of id exists at an index >= k after the call, whatever chunk
\* keys of id the host store held before, runs with gaps included.
C16_NoStaleTail ==
  \A value \in HostValues, options \in HostOptions :
    \A j \in PresentIndices(set(Self, owner, <<"a">>, value, options).owner,
                            FullId(<<"a">>, options)) :
      j < ChunksNeeded(JSON_stringify(value).str)

\* ------------------------------------------------------------------------
\* Properties of set with a caller's serializer
\* ------------------------------------------------------------------------

\* What the host store can hold, or absent: a boolean, a number, a string,
\* a vector of three numbers, undefined.
HostAcceptable(x) ==
  \/ x.kind \in {"boolean", "number", "string", "undefined"}
  \/ x.kind = "object" /\ x.str = <<"Vector3">> /\ Len(x.num) = 3

\* C12: when the active serializer (the call's, else the static default)
\* returns something that is no boolean, number, string, vector of three
\* numbers or absent, set raises an error and leaves the host store exactly
\* as it was.
C12_InvalidSerializationResult ==
  \A options \in SerializerOptions, value \in RawPrimitives \cup RawInvalid :
    LET active == ActiveSerializer(Self, options)
        r == set(Self, owner, <<"a">>, value, options)
    IN (active = "raw" /\ ~HostAcceptable(ApplySerializer(active, value, <<"a">>)))
         => (r.ret.kind = "throw" /\ r.owner = owner)

\* A set whose serializer is the static default has raised an error over a
\* property of several chunks, which are all still there.
C12_Witness ==
  /\ last.op = "set"
  /\ last.ret.kind = "throw"
  /\ serialize = "raw"
  /\ last.before >= 2
  /\ Len(_getChunkPropertyIds(owner, <<"a">>)) = last.before

\* C17: when the serializer returns a boolean, a number or a vector, set
\* writes it at chunk index 0 and the property then has that one chunk,
\* holding that primitive, also when it held a string of several chunks
\* before; get hands that primitive to the deserializer as it is.
C17_ScalarOverwrite ==
  \A options \in SerializerOptions, value \in RawPrimitives :
    LET active == ActiveSerializer(Self, options)
        serialized == ApplySerializer(active, value, <<"a">>)
        r == set(Self, owner, <<"a">>, value, options)
    IN (active = "raw" /\ typeof(serialized) # "string") =>
         /\ r.ret = undefined
         /\ PresentIndices(r.owner, <<"a">>) = {0}
         /\ getDynamicProperty(r.owner, _getChunkPropertyId(<<"a">>, 0)) = serialized
         /\ get(Self, r.owner, <<"a">>, Options(undefined, "none", "raw")) = serialized

\* set has stored a vector over a string of several chunks: one chunk is
\* left, index 0, and it holds the vector.
C17_Witness ==
  /\ last.op = "set"
  /\ last.before >= 2
  /\ PresentIndices(owner, <<"a">>) = {0}
  /\ getDynamicProperty(owner, _getChunkPropertyId(<<"a">>, 0)) = Vec(1, 2, 3)

\* The ids the calls on the host store of several ids address.
FrameIds == {<<"a">>, <<"a", "_", "1">>, <<"a", ".">>}

\* What each call the properties range over would do to the host store o:
\* the id it addresses, the call's name, and its result.
FrameCalls(o) ==
  UNION {
    {[id |-> id, op |-> "set", r |-> set(Self, o, id, value, NoOptions)] :
       value \in HostValues \cup {undefined}}
    \cup {[id |-> id, op |-> "delete", r |-> delete(Self, o, id, NoOptions)]}
    \cup {[id |-> id, op |-> "setDefault", r |-> setDefault(Self, o, id, value, NoOptions)] :
            value \in HostValues}
    \cup {[id |-> id, op |-> "adjust",
           r |-> adjust(Self, o, id, [name |-> "const", arg |-> value], NoOptions)] :
            value \in HostValues}
    : id \in FrameIds}

\* C22: in every reachable state, a set, delete, setDefault or update
\* (adjust) on the id A changes only keys of the form A, separator, decimal
\* index: every other key of the host store (chunks of "a" for a call on
\* "a_1" and the reverse, chunks of "ab" for a call on "a.", keys of other
\* code) is present after the call exactly when it was before, with the
\* payload it had.
C22_FrameOfWrites ==
  \A c \in FrameCalls(owner) :
    \A key \in ((DOMAIN owner.props \cup DOMAIN c.r.owner.props)
                 \ (PresentKeys(owner, c.id) \cup PresentKeys(c.r.owner, c.id))) :
      /\ key \in DOMAIN owner.props
      /\ key \in DOMAIN c.r.owner.props
      /\ c.r.owner.props[key] = owner.props[key]

\* A set on "a_1" has left it in two chunks beside two chunks of "a" (the
\* second has the key "a_1"), a chunk of "a.", a chunk of "ab" and a key of
\* other code; a delete of "a." then removes its chunk and nothing else, and
\* a set of 1 on "a" removes "a_1" and leaves "a_1_0" and "a_1_1".
C22_Witness ==
  /\ last.op = "set"
  /\ last.id = <<"a", "_", "1">>
  /\ PresentIndices(owner, <<"a">>) = {0, 1}
  /\ PresentIndices(owner, <<"a", "_", "1">>) = {0, 1}
  /\ PresentIndices(owner, <<"a", ".">>) = {0}
  /\ {<<"a", "b", "_", "0">>, <<"a", "_", "1", "b">>} \subseteq DOMAIN owner.props
  /\ DOMAIN delete(Self, owner, <<"a", ".">>, NoOptions).owner.props
       = DOMAIN owner.props \ {<<"a", ".", "_", "0">>}
  /\ DOMAIN set(Self, owner, <<"a">>, Num(1), NoOptions).owner.props
       = DOMAIN owner.props \ {<<"a", "_", "1">>}

\* C24: in every reachable state, for every id and value, setDefault(owner,
\* id, V) leaves the host store as it is when exists(owner, id) is true,
\* and otherwise leaves it as set(owner, id, V) does.
C24_SetDefaultOnlyWhenAbsent ==
  \A id \in FrameIds, value \in HostValues \cup {undefined} :
    LET r == setDefault(Self, owner, id, value, NoOptions)
    IN IF exists(Self, owner, id, NoOptions)
       THEN r.owner = owner
       ELSE r.owner = set(Self, owner, id, value, NoOptions).owner

\* A setDefault on "a" has found chunk 5 of "a" and written nothing: "a" has
\* no chunk 0, which every set writes.  A setDefault on "a_1", which has no
\* chunk, would write its chunk 0.
C24_Witness ==
  /\ last.op = "setDefault"
  /\ last.id = <<"a">>
  /\ PresentIndices(owner, <<"a">>) = {5}
  /\ PresentIndices(owner, <<"a", "_", "1">>) = {}
  /\ PresentIndices(setDefault(Self, owner, <<"a", "_", "1">>, Num(1), NoOptions).owner,
                    <<"a", "_", "1">>) = {0}

\* The ids that have a chunk among the keys of a listing.
ListedIds(listing) ==
  {id \in {<<"a">>, <<"b">>, <<"n">>} :
     \E k \in 1..Len(listing) :
       listing[k] \in PresentKeys([props |-> [key \in {listing[k]} |-> undefined]], id)}

\* C21: whatever set and delete calls run before the first step of an ids,
\* values or entries sequence and between its steps, the sequence yields no
\* id twice, yields only ids that had a chunk in the key listing taken at
\* its first step, and, for entries, pairs an id that has no chunk left when
\* it is reached with undefined.
C21_EnumerationAcrossMutation ==
  /\ \A i, j \in DOMAIN last.yielded :
       i # j => last.yielded[i].id # last.yielded[j].id
  /\ \A i \in DOMAIN last.yielded : last.yielded[i].id \in ListedIds(last.listing)
  /\ \A i \in DOMAIN last.yielded :
       (last.kind = "entries" /\ ~last.yielded[i].existed)
         => last.yielded[i].value = undefined

\* An entries sequence listed the keys of "a" and "b", yielded "a" with its
\* value, then "b", deleted in between, with undefined, and has ended; "n",
\* set after the listing was taken, is in the host store and was not
\* yielded.
C21_Witness ==
  /\ last.kind = "entries"
  /\ last.started
  /\ ListedIds(last.listing) = {<<"a">>, <<"b">>}
  /\ Len(last.yielded) = 2
  /\ last.yielded[1] = [id |-> <<"a">>, value |-> ShortString, existed |-> TRUE]
  /\ last.yielded[2] = [id |-> <<"b">>, value |-> undefined, existed |-> FALSE]
  /\ exists(Self, owner, <<"n">>, NoOptions)
  /\ ~ENABLED EnumNext

\* C23: in every reachable state, a set of a value other than undefined
\* that returns without error leaves chunk 0 of the id in the host store,
\* so that exists is true and get does not return undefined, whatever
\* primitive the active serializer returned (the empty string and undefined
\* among them).
C23_SetMakesPropertyExist ==
  \A options \in SerializerOptions :
    \A value \in (IF ActiveSerializer(Self, options) = "raw"
                  THEN RawPrimitives \cup RawInvalid ELSE JsonValues) :
      LET r == set(Self, owner, <<"a">>, value, options)
      IN (value # undefined /\ r.ret.kind # "throw") =>
           /\ 0 \in PresentIndices(r.owner, <<"a">>)
           /\ exists(Self, r.owner, <<"a">>, options)
           /\ get(Self, r.owner, <<"a">>, options) # undefined

====
